---- MODULE Spec2Model ----
(***************************************************************************)
(* A model of xcli's terminal autocompletion (src/xcli/_autocomplete.py):  *)
(* the Autocomplete line editor, the default completion provider built by  *)
(* sequence_to_autocomplete, and the Printer that draws the input line and *)
(* the suggestion overlay.                                                 *)
(*                                                                         *)
(* Characters are code points (ord), strings are sequences of code points, *)
(* and self.chars is a sequence of one-character strings, as in the code.  *)
(* Python's None is the value None below; list indices are 0-based as in   *)
(* the code, so suggestions[selected] is written suggestions[selected+1].  *)
(***************************************************************************)
EXTENDS Integers, Sequences, FiniteSets, TLC

VARIABLES
    sequence,            \* the candidate list captured by sequence_to_autocomplete
    fuzzy,               \* its fuzzy flag
    max_options,         \* Autocomplete.max_options
    min_chars,           \* Autocomplete.min_chars
    prompt,              \* Autocomplete.prompt
    chars,               \* Autocomplete.chars
    suggestions,         \* Autocomplete.suggestions
    selected,            \* Autocomplete.selected
    cursor_pos,          \* Printer.cursor_pos
    lines_below_cursor,  \* Printer.lines_below_cursor
    line,                \* the text on the terminal's input line
    overlay,             \* the rows painted below the input line
    pc,                  \* where the caller is: idle, reading, returned, aborted,
                         \* raised (an exception other than EOFError left input())
    result,              \* the value returned by the last input() call
    c,                   \* the character last read by input()
    esc,                 \* the two codes read after ESC by handle_special_key
    nkeys,               \* keystrokes processed by the current input() call
    ncalls,              \* input() calls made on this object
    typed,               \* the characters read by this call while all were printable
    pure,                \* no special key has been read by this call
    prev_selected,       \* self.selected when the last character was read
    downs,               \* length of the current run of Down presses that began
                         \* with no suggestions, no selection and a short buffer
    eof,                 \* stdin is exhausted: read(1) returns ""
    term_mode,           \* the terminal's input mode: cbreak or cooked
    restores,            \* how often tcsetattr has restored old_settings
    managed,             \* the object is used in a with statement
    exited,              \* __exit__ has run
    dropped,             \* the caller has let go of the object
    invoked,             \* the last keystroke called the completer
    forced,              \* the suggestions held came from a fetch forced by Down
    run,                 \* the current run of Down presses that began with no
                         \* selection, and the Up presses that followed it
    ed,                  \* the buffer and insertion point an editor with cursor
                         \* keys would hold after the keys read by this call
    cli,                 \* a Parser, the command line given to it, the outcome
    in2,                 \* an input2 call: its parameters, responses and outcome
    scr,                 \* a terminal window and the Printer that draws on it
    given                \* the list object the completer returned last

vars == <<sequence, fuzzy, max_options, min_chars, prompt, chars, suggestions,
          selected, cursor_pos, lines_below_cursor, line, overlay, pc, result,
          c, esc, nkeys, ncalls, typed, pure, prev_selected, downs,
          eof, term_mode, restores, managed, exited, dropped,
          invoked, forced, run, ed, cli, in2, scr, given>>

config == <<sequence, fuzzy, max_options, min_chars, managed>>

\* the stream's end and the terminal mode's life cycle
life == <<eof, term_mode, restores, exited, dropped>>

\* the argument parser, input2 and the terminal window, which the editor's
\* actions never touch
elsewhere == <<cli, in2, scr>>

\* everything of the Autocomplete object, its terminal and its caller
autocomplete == <<config, prompt, chars, suggestions, selected, cursor_pos,
                  lines_below_cursor, line, overlay, pc, result, c, esc, nkeys,
                  ncalls, typed, pure, prev_selected, downs, life, invoked,
                  forced, run, ed, given>>

----------------------------------------------------------------------------
(* Bounds of the model *)

MaxKeys == 4
MaxCalls == 2
MaxCloses == 2
MaxResponses == 3
MaxArgs == 3
MaxHeight == 4

(* Python's None *)
None == -1

(* Key codes, src/xcli/_autocomplete.py:14-18 *)
UP == <<91, 65>>
DOWN == <<91, 66>>
BACKSPACE == 127
ESCAPE == 27
CTRL_D == 4
ENTER == 10

(* What c is when read(1) returned "" *)
EndOfStream == -2

(* The terminal settings saved by Printer.__init__ *)
OldSettings == "cooked"

(* No run of Down presses *)
NoRun == [d |-> 0, u |-> 0, sel |-> FALSE, buf |-> <<>>]

(* The characters the model types: a, b, A, and the codes that follow ESC *)
Printable == {97, 98, 65}
EscCodes == {91, 65, 66}

(* The cursor keys of src/tests/test_autocomplete.py:9-12 *)
RIGHT == <<91, 67>>
LEFT == <<91, 68>>
HOME == <<91, 72>>
END == <<91, 70>>
CursorSequences == {LEFT, RIGHT, HOME, END}

(* What read(2) returns when fewer than two characters are left: "" or "[" *)
ShortReads == { <<>>, <<91>> }

(* No editing followed, no parser built, no input2 call made *)
NoEd == [on |-> FALSE, ok |-> FALSE, text |-> <<>>, point |-> 0]
NoCli == [pc |-> "idle"]
NoCall == [pc |-> "idle"]
NoScr == [pc |-> "off"]
NoGiven == [on |-> FALSE, same |-> FALSE, list |-> <<>>, was |-> <<>>]

(* The sequences read after ESC: Up, Down, and two the code does not        *)
(* recognise, ESC [ [ and ESC A A                                           *)
EscSequences == {sq \in EscCodes \X EscCodes : sq[1] = 91 \/ sq = <<65, 65>>}

(* "ab" etc. as code points *)
Str_Ab == <<65, 98>>
Str_a == <<97>>
Str_ba == <<98, 97>>
Str_abb == <<97, 98, 98>>
Str_prompt == <<63, 32>>

CandidateLists == { <<Str_Ab, Str_a, Str_ba>>, <<Str_abb, Str_Ab>> }
MaxOptions == {1, 2, None}
MinChars == {0, 1}
Prompts == {Str_prompt}

----------------------------------------------------------------------------
(* Pure helpers *)

Min(a, b) == IF a <= b THEN a ELSE b

\* str.lower() on one code point and on a string
lower_char(ch) == IF ch >= 65 /\ ch <= 90 THEN ch + 32 ELSE ch
lower(s) == [i \in 1..Len(s) |-> lower_char(s[i])]

\* x.startswith(p)
startswith(x, p) == Len(p) <= Len(x) /\ SubSeq(x, 1, Len(p)) = p

\* p in x (substring test)
contains(x, p) ==
    \E i \in 0..(Len(x) - Len(p)) : SubSeq(x, i + 1, i + Len(p)) = p

\* list(s): a string split into one-character strings
list(s) == [i \in 1..Len(s) |-> <<s[i]>>]

\* "".join(cs)
RECURSIVE join(_)
join(cs) == IF cs = <<>> THEN <<>> ELSE Head(cs) \o join(Tail(cs))

\* options[:n] for n >= 0
slice(options, n) == SubSeq(options, 1, Min(n, Len(options)))

----------------------------------------------------------------------------
(* The completion provider *)

\* sequence_to_autocomplete(sequence, fuzzy=fuzzy)(text)
completer(text) ==
    LET lowered == [i \in 1..Len(sequence) |-> lower(sequence[i])]
        prefix(x) == startswith(x, lower(text))
        inside(x) == contains(x, lower(text))
    IN  IF fuzzy THEN SelectSeq(lowered, inside) ELSE SelectSeq(lowered, prefix)

\* get_suggestions without the truncation to max_options
get_suggestions_all(text) == completer(text)

\* Autocomplete.get_suggestions
get_suggestions(text) ==
    LET options == completer(text)
    IN  IF max_options # None THEN slice(options, max_options) ELSE options

----------------------------------------------------------------------------
(* The editor's handlers, on s = [chars, suggestions, selected] *)

Self == [chars |-> chars, suggestions |-> suggestions, selected |-> selected]

\* choose_selection that clears the selection without copying the candidate
choose_selection_keep(s) ==
    IF s.selected # None
    THEN [chars |-> s.chars, suggestions |-> <<>>, selected |-> None]
    ELSE s

\* Autocomplete.choose_selection
choose_selection(s) ==
    IF s.selected # None
    THEN [chars |-> list(s.suggestions[s.selected + 1]),
          suggestions |-> <<>>,
          selected |-> None]
    ELSE s

\* handle_backspace that does not commit the selection first
handle_backspace_stale(s) ==
    IF s.chars # <<>>
    THEN [s EXCEPT !.chars = SubSeq(s.chars, 1, Len(s.chars) - 1)]
    ELSE s

\* Autocomplete.handle_backspace
handle_backspace(s) ==
    LET t == choose_selection(s)
    IN  IF t.chars # <<>>
        THEN [t EXCEPT !.chars = SubSeq(t.chars, 1, Len(t.chars) - 1)]
        ELSE t

\* handle_char that does not commit the selection first
handle_char_stale(s, ch) == [s EXCEPT !.chars = Append(s.chars, ch)]

\* Autocomplete.handle_char; ch is the string read, "" at the end of stdin
handle_char(s, ch) ==
    LET t == choose_selection(s)
    IN  [t EXCEPT !.chars = Append(t.chars, ch)]

\* select_up that stops at index 0 instead of clearing the selection
select_up_stop(s) ==
    IF s.selected = None \/ s.selected = 0 THEN s
    ELSE [s EXCEPT !.selected = s.selected - 1]

\* Autocomplete.select_up
select_up(s) ==
    IF s.selected = None THEN s
    ELSE IF s.selected = 0 THEN [s EXCEPT !.selected = None]
    ELSE [s EXCEPT !.selected = s.selected - 1]

\* select_down that wraps from the last index to the first
select_down_wrap(s) ==
    IF s.suggestions = <<>> THEN s
    ELSE IF s.selected = None THEN [s EXCEPT !.selected = 0]
    ELSE IF s.selected >= Len(s.suggestions) - 1 THEN [s EXCEPT !.selected = 0]
    ELSE [s EXCEPT !.selected = s.selected + 1]

\* select_down that also copies the candidate it selects into chars
select_down_commit(s) ==
    IF s.selected # None /\ s.selected >= Len(s.suggestions) - 1 THEN s
    ELSE IF s.suggestions = <<>> THEN s
    ELSE IF s.selected = None
    THEN [s EXCEPT !.selected = 0, !.chars = list(s.suggestions[1])]
    ELSE [s EXCEPT !.selected = s.selected + 1,
                   !.chars = list(s.suggestions[s.selected + 2])]

\* select_down without the check for the last index
select_down_unbounded(s) ==
    IF s.suggestions = <<>> THEN s
    ELSE IF s.selected = None THEN [s EXCEPT !.selected = 0]
    ELSE [s EXCEPT !.selected = s.selected + 1]

\* Autocomplete.select_down
select_down(s) ==
    IF s.selected # None /\ s.selected >= Len(s.suggestions) - 1 THEN s
    ELSE IF s.suggestions = <<>> THEN s
    ELSE IF s.selected = None THEN [s EXCEPT !.selected = 0]
    ELSE [s EXCEPT !.selected = s.selected + 1]

\* handle_special_key in which Down does not force suggestions
handle_special_key_noforce(s, c2, c3) ==
    LET sq == <<c2, c3>>
    IN  IF sq = UP THEN [self |-> select_up(s), force |-> FALSE]
        ELSE IF sq = DOWN THEN [self |-> select_down(s), force |-> FALSE]
        ELSE [self |-> s, force |-> FALSE]

\* handle_special_key that takes every sequence other than Up for Down
handle_special_key_else_down(s, c2, c3) ==
    LET sq == <<c2, c3>>
    IN  IF sq = UP THEN [self |-> select_up(s), force |-> FALSE]
        ELSE [self |-> select_down(s), force |-> TRUE]

\* handle_special_key that takes a 0x7F among the two characters for a Backspace
handle_special_key_unframed(s, c2, c3) ==
    LET sq == <<c2, c3>>
    IN  IF BACKSPACE \in {c2, c3} THEN [self |-> handle_backspace(s), force |-> FALSE]
        ELSE IF sq = UP THEN [self |-> select_up(s), force |-> FALSE]
        ELSE IF sq = DOWN THEN [self |-> select_down(s), force |-> TRUE]
        ELSE [self |-> s, force |-> FALSE]

\* Autocomplete.handle_special_key: the new state and the force flag
handle_special_key(s, c2, c3) ==
    LET sq == <<c2, c3>>
    IN  IF sq = UP THEN [self |-> select_up(s), force |-> FALSE]
        ELSE IF sq = DOWN THEN [self |-> select_down(s), force |-> TRUE]
        ELSE [self |-> s, force |-> FALSE]

\* the refresh with the threshold test len(chars) >= min_chars
refresh_ge(s, force_suggestions) ==
    IF s.selected = None
    THEN IF Len(s.chars) >= min_chars \/ force_suggestions
         THEN [s EXCEPT !.suggestions = get_suggestions(join(s.chars))]
         ELSE [s EXCEPT !.suggestions = <<>>]
    ELSE s

\* the refresh run whether or not a selection is present
refresh_always(s, force_suggestions) ==
    IF Len(s.chars) > min_chars \/ force_suggestions
    THEN [s EXCEPT !.suggestions = get_suggestions(join(s.chars))]
    ELSE [s EXCEPT !.suggestions = <<>>]

\* The suggestion refresh of Autocomplete.input
refresh(s, force_suggestions) ==
    IF s.selected = None
    THEN IF Len(s.chars) > min_chars \/ force_suggestions
         THEN [s EXCEPT !.suggestions = get_suggestions(join(s.chars))]
         ELSE [s EXCEPT !.suggestions = <<>>]
    ELSE s

\* whether that refresh calls the completer
refresh_invokes(s, force_suggestions) ==
    s.selected = None /\ (Len(s.chars) > min_chars \/ force_suggestions)

----------------------------------------------------------------------------
(* The Printer, on p = [cursor_pos, lines_below_cursor, line, overlay] *)

Term == [cursor_pos |-> cursor_pos, lines_below_cursor |-> lines_below_cursor,
         line |-> line, overlay |-> overlay]

\* Printer.print_line
print_line(p, text) == [p EXCEPT !.line = text, !.cursor_pos = Len(text)]

\* Printer.clear_below_cursor
clear_below_cursor(p) ==
    IF p.lines_below_cursor = 0 THEN p
    ELSE [p EXCEPT
            !.overlay = SubSeq(p.overlay, p.lines_below_cursor + 1, Len(p.overlay)),
            !.lines_below_cursor = 0]

\* Printer.print_lines_below_cursor
print_lines_below_cursor(p, lines, highlight) ==
    LET q == clear_below_cursor(p)
    IN  IF lines = <<>> THEN q
        ELSE [q EXCEPT
                !.overlay = [i \in 1..Len(lines) |->
                                [text |-> lines[i], inverse |-> (i - 1 = highlight)]],
                !.lines_below_cursor = Len(lines)]

\* Autocomplete.sync_display
sync_display(s, p) ==
    LET text == IF s.selected = None THEN join(s.chars)
                ELSE s.suggestions[s.selected + 1]
    IN  print_lines_below_cursor(print_line(p, prompt \o text),
                                 s.suggestions, s.selected)

\* Printer.close that leaves the terminal as it is
close_skip(t) == t

\* Printer.close, on t = [mode, restores]
close(t) == [mode |-> OldSettings, restores |-> t.restores + 1]

----------------------------------------------------------------------------
(* Actions *)

SetSelf(s) ==
    /\ chars' = s.chars
    /\ suggestions' = s.suggestions
    /\ selected' = s.selected

SetTerm(p) ==
    /\ cursor_pos' = p.cursor_pos
    /\ lines_below_cursor' = p.lines_below_cursor
    /\ line' = p.line
    /\ overlay' = p.overlay

\* The editing the cursor-key tests expect (test_home_key, test_end_key,
\* test_left_and_right_keys, test_handle_backspace_in_middle_of_word): a
\* character goes in at the insertion point, Backspace removes the one
\* before it, Left/Right/Home/End move it. Up, Down and the end of the
\* stream end the comparison.
ed_char(e, ch) ==
    IF ~e.on THEN e
    ELSE [e EXCEPT !.text = SubSeq(e.text, 1, e.point) \o <<ch>>
                              \o SubSeq(e.text, e.point + 1, Len(e.text)),
                   !.point = e.point + 1]

ed_backspace(e) ==
    IF ~e.on \/ e.point = 0 THEN e
    ELSE [e EXCEPT !.text = SubSeq(e.text, 1, e.point - 1)
                              \o SubSeq(e.text, e.point + 1, Len(e.text)),
                   !.point = e.point - 1]

ed_special_key(e, sq) ==
    IF ~e.on THEN e
    ELSE IF sq = LEFT THEN [e EXCEPT !.point = IF e.point = 0 THEN 0 ELSE e.point - 1]
    ELSE IF sq = RIGHT THEN [e EXCEPT !.point = Min(Len(e.text), e.point + 1)]
    ELSE IF sq = HOME THEN [e EXCEPT !.point = 0]
    ELSE IF sq = END THEN [e EXCEPT !.point = Len(e.text)]
    ELSE IF sq \in {UP, DOWN} THEN [e EXCEPT !.ok = FALSE]
    ELSE e

\* The list object the completer returned last, as the caller of the
\* completer holds it: `same` when self.suggestions is that very object,
\* `was` its content when it was returned, `list` its content now.
\* choose_selection clears self.suggestions in place
given_choose(g, s) ==
    IF g.on /\ g.same /\ s.selected # None THEN [g EXCEPT !.list = <<>>] ELSE g

\* the refresh binds self.suggestions to what get_suggestions returns (the
\* completer's own list when max_options is None, a slice of it otherwise)
\* or clears it in place
given_refresh(g, s, force_suggestions) ==
    IF ~g.on THEN g
    ELSE IF refresh_invokes(s, force_suggestions)
    THEN [on |-> TRUE, same |-> (max_options = None),
          list |-> completer(join(s.chars)), was |-> completer(join(s.chars))]
    ELSE IF s.selected = None
    THEN [g EXCEPT !.list = IF g.same THEN <<>> ELSE g.list]
    ELSE g

\* One pass of the loop body of Autocomplete.input after the handler ran
LoopTail(s, force_suggestions) ==
    LET t == refresh(s, force_suggestions)
    IN  /\ SetSelf(t)
        /\ IF t.selected # None /\ t.selected >= Len(t.suggestions)
           THEN \* suggestions[selected] in sync_display raises IndexError
                /\ pc' = "raised"
                /\ UNCHANGED <<cursor_pos, lines_below_cursor, line, overlay>>
           ELSE /\ pc' = pc
                /\ SetTerm(sync_display(t, Term))
        /\ nkeys' = nkeys + 1
        /\ invoked' = refresh_invokes(s, force_suggestions)
        /\ forced' = IF t.suggestions = <<>> THEN FALSE
                     ELSE IF refresh_invokes(s, force_suggestions)
                          THEN force_suggestions
                     ELSE forced
        /\ UNCHANGED <<config, prompt, result, ncalls,
                       term_mode, restores, exited, dropped, elsewhere>>

\* the state Autocomplete.__init__ and Printer.__init__ leave
InitState ==
    /\ prompt = <<>>
    /\ chars = <<>>
    /\ suggestions = <<>>
    /\ selected = None
    /\ cursor_pos = 0
    /\ lines_below_cursor = 0
    /\ line = <<>>
    /\ overlay = <<>>
    /\ pc = "idle"
    /\ result = <<>>
    /\ c = None
    /\ esc = <<>>
    /\ nkeys = 0
    /\ ncalls = 0
    /\ typed = <<>>
    /\ pure = TRUE
    /\ prev_selected = None
    /\ downs = 0
    /\ eof = FALSE
    /\ term_mode = "cbreak"
    /\ restores = 0
    /\ exited = FALSE
    /\ dropped = FALSE
    /\ invoked = FALSE
    /\ forced = FALSE
    /\ run = NoRun
    /\ cli = NoCli
    /\ in2 = NoCall

Init ==
    /\ sequence \in CandidateLists
    /\ fuzzy \in BOOLEAN
    /\ max_options \in MaxOptions
    /\ min_chars \in MinChars
    /\ managed = TRUE
    /\ ed = NoEd
    /\ scr = NoScr
    /\ given = NoGiven
    /\ InitState

\* one provider, with and without a with statement
InitLife ==
    /\ sequence = <<Str_Ab, Str_a, Str_ba>>
    /\ fuzzy = FALSE
    /\ max_options = 2
    /\ min_chars = 0
    /\ managed \in BOOLEAN
    /\ ed = NoEd
    /\ scr = NoScr
    /\ given = NoGiven
    /\ InitState

\* one provider, and the editing of the cursor-key tests followed along
InitKeys ==
    /\ sequence = <<Str_Ab, Str_a, Str_ba>>
    /\ fuzzy = FALSE
    /\ max_options = 2
    /\ min_chars = 1
    /\ managed = TRUE
    /\ ed = [NoEd EXCEPT !.on = TRUE]
    /\ scr = NoScr
    /\ given = NoGiven
    /\ InitState

\* Autocomplete.input up to the first read
Input(pr) ==
    /\ pc \in {"idle", "returned", "aborted", "raised"}
    /\ ~dropped
    /\ ncalls < MaxCalls
    /\ prompt' = pr
    /\ chars' = <<>>
    /\ SetTerm(print_line(Term, pr))
    /\ result' = <<>>
    /\ pc' = "reading"
    /\ ncalls' = ncalls + 1
    /\ nkeys' = 0
    /\ c' = None /\ esc' = <<>>
    /\ typed' = <<>> /\ pure' = TRUE /\ downs' = 0
    /\ prev_selected' = None
    /\ invoked' = FALSE /\ run' = NoRun
    /\ ed' = [ed EXCEPT !.ok = ed.on /\ selected = None, !.text = <<>>, !.point = 0]
    /\ UNCHANGED <<config, suggestions, selected, forced, life, elsewhere, given>>

\* c == "\n"
KeyEnter ==
    /\ pc = "reading" /\ ~eof
    /\ LET s == choose_selection(Self)
           p == clear_below_cursor(Term)
       IN  /\ SetSelf(s)
           /\ SetTerm(p)
           /\ result' = join(s.chars)
           /\ forced' = IF s.suggestions = <<>> THEN FALSE ELSE forced
    /\ pc' = "returned"
    /\ c' = ENTER /\ esc' = <<>>
    /\ prev_selected' = selected
    /\ invoked' = FALSE
    /\ given' = given_choose(given, Self)
    /\ UNCHANGED <<config, prompt, nkeys, ncalls, typed, pure, downs, run, life,
                   ed, elsewhere>>

\* c == BACKSPACE
KeyBackspace ==
    /\ pc = "reading" /\ nkeys < MaxKeys /\ ~eof
    /\ LoopTail(handle_backspace(Self), FALSE)
    /\ c' = BACKSPACE /\ esc' = <<>>
    /\ typed' = <<>> /\ pure' = FALSE /\ downs' = 0
    /\ prev_selected' = selected
    /\ run' = NoRun /\ eof' = eof
    /\ ed' = ed_backspace(ed)
    /\ given' = given_refresh(given_choose(given, Self),
                              handle_backspace(Self), FALSE)

\* c == ESCAPE, followed by the two characters c2, c3
KeyEscape(c2, c3) ==
    /\ pc = "reading" /\ nkeys < MaxKeys /\ ~eof
    /\ LET r == handle_special_key(Self, c2, c3)
       IN  LoopTail(r.self, r.force)
    /\ c' = ESCAPE /\ esc' = <<c2, c3>>
    /\ typed' = <<>> /\ pure' = FALSE
    /\ prev_selected' = selected
    /\ downs' = IF <<c2, c3>> # DOWN THEN 0
                ELSE IF downs > 0 THEN downs + 1
                ELSE IF suggestions = <<>> /\ selected = None
                        /\ Len(chars) <= min_chars THEN 1
                ELSE 0
    /\ run' = IF <<c2, c3>> = DOWN
              THEN IF run.d > 0 /\ run.u = 0
                   THEN [run EXCEPT !.d = run.d + 1, !.sel = (selected' # None)]
                   ELSE IF selected = None
                   THEN [d |-> 1, u |-> 0, sel |-> (selected' # None),
                         buf |-> join(chars)]
                   ELSE NoRun
              ELSE IF <<c2, c3>> = UP /\ run.d > 0 /\ run.u < run.d
              THEN [run EXCEPT !.u = run.u + 1]
              ELSE NoRun
    /\ eof' = eof
    /\ ed' = ed_special_key(ed, <<c2, c3>>)
    /\ given' = LET r == handle_special_key(Self, c2, c3)
                 IN  given_refresh(given, r.self, r.force)

\* c == CTRL_D
KeyCtrlD ==
    /\ pc = "reading" /\ ~eof
    /\ pc' = "aborted"
    /\ c' = CTRL_D /\ esc' = <<>>
    /\ typed' = <<>> /\ pure' = FALSE /\ downs' = 0
    /\ prev_selected' = selected
    /\ invoked' = FALSE /\ run' = NoRun
    /\ UNCHANGED <<config, prompt, chars, suggestions, selected, cursor_pos,
                   lines_below_cursor, line, overlay, result, nkeys, ncalls,
                   forced, life, ed, elsewhere, given>>

\* any other character
KeyChar(ch) ==
    /\ pc = "reading" /\ nkeys < MaxKeys /\ ~eof
    /\ LoopTail(handle_char(Self, <<ch>>), FALSE)
    /\ c' = ch /\ esc' = <<>>
    /\ typed' = IF pure THEN Append(typed, ch) ELSE typed
    /\ pure' = pure /\ downs' = 0
    /\ prev_selected' = selected
    /\ run' = NoRun /\ eof' = eof
    /\ ed' = ed_char(ed, ch)
    /\ given' = given_refresh(given_choose(given, Self),
                              handle_char(Self, <<ch>>), FALSE)

\* stdin is exhausted: c == "" falls to handle_char and the loop goes on
ReadEOF ==
    /\ pc = "reading" /\ nkeys < MaxKeys
    /\ LoopTail(handle_char(Self, <<>>), FALSE)
    /\ eof' = TRUE
    /\ c' = EndOfStream /\ esc' = <<>>
    /\ typed' = <<>> /\ pure' = FALSE /\ downs' = 0
    /\ prev_selected' = selected
    /\ run' = NoRun
    /\ ed' = [ed EXCEPT !.ok = FALSE]
    /\ given' = given_refresh(given_choose(given, Self),
                              handle_char(Self, <<>>), FALSE)

\* handle_special_key when fewer than two characters are left on stdin:
\* unpacking the result of read(2) raises ValueError
ReadEscapeEOF(rest) ==
    /\ pc = "reading" /\ ~eof
    /\ pc' = "raised"
    /\ eof' = TRUE
    /\ c' = ESCAPE /\ esc' = rest
    /\ typed' = <<>> /\ pure' = FALSE /\ downs' = 0
    /\ prev_selected' = selected
    /\ invoked' = FALSE /\ run' = NoRun
    /\ ed' = [ed EXCEPT !.ok = FALSE]
    /\ UNCHANGED <<config, prompt, chars, suggestions, selected, cursor_pos,
                   lines_below_cursor, line, overlay, result, nkeys, ncalls,
                   forced, term_mode, restores, exited, dropped, elsewhere,
                   given>>

\* what no action of the caller changes in the editor
Editor == <<prompt, chars, suggestions, selected, pc, result, c, esc, nkeys,
            ncalls, typed, pure, prev_selected, downs, invoked, forced, run,
            ed, cli, in2, scr, given>>

\* Autocomplete.close
Close ==
    /\ pc # "reading" /\ ~dropped
    /\ restores < MaxCloses
    /\ LET t == close([mode |-> term_mode, restores |-> restores])
       IN  term_mode' = t.mode /\ restores' = t.restores
    /\ UNCHANGED <<config, Editor, cursor_pos, lines_below_cursor, line, overlay,
                   eof, exited, dropped>>

\* Autocomplete.__exit__, when the with block is left
Exit ==
    /\ managed /\ ~exited
    /\ pc # "reading" /\ ~dropped
    /\ SetTerm(clear_below_cursor(Term))
    /\ LET t == close([mode |-> term_mode, restores |-> restores])
       IN  term_mode' = t.mode /\ restores' = t.restores
    /\ exited' = TRUE
    /\ UNCHANGED <<config, Editor, eof, dropped>>

\* the caller keeps no reference to the object any more
Drop ==
    /\ pc # "reading" /\ ~dropped
    /\ managed => exited
    /\ dropped' = TRUE
    /\ UNCHANGED <<config, Editor, cursor_pos, lines_below_cursor, line, overlay,
                   eof, term_mode, restores, exited>>

Next ==
    \/ \E pr \in Prompts : Input(pr)
    \/ KeyEnter
    \/ KeyBackspace
    \/ \E sq \in EscSequences : KeyEscape(sq[1], sq[2])
    \/ KeyCtrlD
    \/ \E ch \in Printable : KeyChar(ch)

Spec == Init /\ [][Next]_vars

\* the editor together with the end of stdin and the terminal mode's release
NextLife ==
    \/ Next
    \/ ReadEOF
    \/ \E rest \in ShortReads : ReadEscapeEOF(rest)
    \/ Close
    \/ Exit
    \/ Drop

SpecLife == InitLife /\ [][NextLife]_vars

\* the editor fed the cursor keys of the tests as well
NextKeys ==
    \/ Next
    \/ \E sq \in CursorSequences : KeyEscape(sq[1], sq[2])

SpecKeys == InitKeys /\ [][NextKeys]_vars

\* ESC followed by two characters of which one is Enter, 0x7F or 0x04
FramingSequences ==
    { <<ENTER, 65>>, <<91, ENTER>>, <<BACKSPACE, 66>>, <<91, BACKSPACE>>,
      <<CTRL_D, 65>>, <<91, CTRL_D>> }

NextEsc ==
    \/ Next
    \/ \E sq \in FramingSequences : KeyEscape(sq[1], sq[2])

SpecEsc == InitKeys /\ [][NextEsc]_vars

\* one provider, with and without a limit on the options, and the list object
\* its completer returned last followed along
InitAlias ==
    /\ sequence = <<Str_Ab, Str_a, Str_ba>>
    /\ fuzzy = FALSE
    /\ max_options \in {2, None}
    /\ min_chars = 1
    /\ managed = TRUE
    /\ ed = NoEd
    /\ scr = NoScr
    /\ given = [NoGiven EXCEPT !.on = TRUE]
    /\ InitState

SpecAlias == InitAlias /\ [][Next]_vars

----------------------------------------------------------------------------
(* input2, src/xcli/_input.py *)

(* Values: a str is <<0>> followed by its code points, an int n is <<1, n>> *)
StrVal(chs) == <<0>> \o chs
IntVal(n) == <<1, n>>
is_str(v) == v[1] = 0
text_of(v) == SubSeq(v, 2, Len(v))

(* What the user answers: "1", " 1", "2", "x", "" *)
Responses == { <<49>>, <<32, 49>>, <<50>>, <<120>>, <<>> }

(* No value: what stands for a conversion that raised, and for the        *)
(* response of a pass that has not returned; <<>> is neither str nor int   *)
NoValue == <<>>

(* The parameters the model passes to input2. choices=None is NoChoices,   *)
(* type=None and verify=None are "None"                                    *)
NoChoices == { NoValue }
ChoiceLists == { NoChoices, {StrVal(<<49>>), IntVal(1), StrVal(<<120>>)} }
Types == { "None", "int" }
Verifiers == { "None", "is_one" }

\* str.strip for the whitespace the responses hold (the space)
RECURSIVE lstrip(_)
lstrip(chs) == IF chs # <<>> /\ Head(chs) = 32 THEN lstrip(Tail(chs)) ELSE chs
RECURSIVE rstrip(_)
rstrip(chs) ==
    IF chs # <<>> /\ chs[Len(chs)] = 32 THEN rstrip(SubSeq(chs, 1, Len(chs) - 1))
    ELSE chs
strip(chs) == rstrip(lstrip(chs))

\* int(str): surrounding whitespace is allowed, then decimal digits only
is_digits(chs) == chs # <<>> /\ \A i \in 1..Len(chs) : chs[i] \in 48..57
RECURSIVE decimal(_)
decimal(chs) ==
    IF chs = <<>> THEN 0
    ELSE 10 * decimal(SubSeq(chs, 1, Len(chs) - 1)) + (chs[Len(chs)] - 48)

\* type(response): the value, or NoValue when the call raises
apply_type(type, v) ==
    IF type = "None" THEN v
    ELSE IF is_str(v) /\ is_digits(strip(text_of(v)))
         THEN IntVal(decimal(strip(text_of(v))))
    ELSE NoValue

\* verify(response)
apply_verify(verify, v) == v \in {StrVal(<<49>>), IntVal(1)}

\* one pass of the loop body that does not give up the response on a
\* failed conversion
input2_pass_keep(p, raw) ==
    LET stripped == IF p.normalize THEN strip(raw) ELSE raw
        typed_ == apply_type(p.type, StrVal(stripped))
        response == IF typed_ = NoValue THEN StrVal(stripped) ELSE typed_
    IN  IF p.choices # NoChoices /\ response \notin p.choices
        THEN [again |-> TRUE, value |-> NoValue]
        ELSE IF p.verify # "None" /\ ~apply_verify(p.verify, response)
        THEN [again |-> TRUE, value |-> NoValue]
        ELSE [again |-> FALSE, value |-> response]

\* one pass of the loop body of input2 on the string input() returned:
\* continue (again) or return the response
input2_pass(p, raw) ==
    LET stripped == IF p.normalize THEN strip(raw) ELSE raw
        typed_ == apply_type(p.type, StrVal(stripped))
    IN  IF typed_ = NoValue
        THEN [again |-> TRUE, value |-> NoValue]
        ELSE IF p.choices # NoChoices /\ typed_ \notin p.choices
        THEN [again |-> TRUE, value |-> NoValue]
        ELSE IF p.verify # "None" /\ ~apply_verify(p.verify, typed_)
        THEN [again |-> TRUE, value |-> NoValue]
        ELSE [again |-> FALSE, value |-> typed_]

\* input2(...) up to the first input() call
Input2Call(choices, normalize, type, verify) ==
    /\ in2.pc = "idle"
    /\ in2' = [pc |-> IF choices # NoChoices /\ verify # "None"
                      THEN "raised" ELSE "prompting",
               choices |-> choices, normalize |-> normalize, type |-> type,
               verify |-> verify, prompts |-> 0, fails |-> 0,
               response |-> <<>>, value |-> NoValue]
    /\ UNCHANGED <<autocomplete, cli, scr>>

\* input(prompt) returns raw, and the rest of the loop body runs
Input2Response(raw) ==
    /\ in2.pc = "prompting"
    /\ in2.prompts < MaxResponses
    /\ LET r == input2_pass(in2, raw)
       IN  in2' = [in2 EXCEPT !.pc = IF r.again THEN "prompting" ELSE "returned",
                              !.prompts = in2.prompts + 1,
                              !.fails = IF r.again THEN in2.fails + 1 ELSE in2.fails,
                              !.response = raw,
                              !.value = r.value]
    /\ UNCHANGED <<autocomplete, cli, scr>>

InitInput2 ==
    /\ sequence = <<Str_Ab, Str_a, Str_ba>>
    /\ fuzzy = FALSE
    /\ max_options = 2
    /\ min_chars = 1
    /\ managed = FALSE
    /\ ed = NoEd
    /\ scr = NoScr
    /\ given = NoGiven
    /\ InitState

NextInput2 ==
    \/ \E ch \in ChoiceLists, n \in BOOLEAN, t \in Types, v \in Verifiers :
           Input2Call(ch, n, t, v)
    \/ \E raw \in Responses : Input2Response(raw)

SpecInput2 == InitInput2 /\ [][NextInput2]_vars

----------------------------------------------------------------------------
(* The argument parser, src/xcli/_parser.py (a Parser without subcommands) *)

(* Values besides str and int: True/False are <<2, 1>>/<<2, 0>>, None is   *)
(* <<3>>, and the Nothing singleton of line 11 is <<4>>                    *)
BoolVal(b) == IF b THEN <<2, 1>> ELSE <<2, 0>>
NoneVal == <<3>>
Nothing == <<4>>

(* Names and command-line tokens as code points *)
Str_x == <<120>>
Str_1 == <<49>>
Str_D == <<68>>
Str_arg_a == <<97>>
Str_arg_b == <<98>>
Flag_c == <<45, 99>>
Flag_n == <<45, 110>>
Flag_nm == <<45, 45, 110, 109>>
Flag_b == <<45, 98>>
Tok_n_eq_x == <<45, 110, 61, 120>>
Tok_n_eq == <<45, 110, 61>>
Tok_dashes == <<45, 45>>
Tok_help == <<45, 45, 104, 101, 108, 112>>

Tokens == { Str_x, Str_1, Flag_c, Flag_n, Tok_n_eq_x, Tok_n_eq, Tok_dashes,
            Flag_b, Tok_help }

\* Arg(name, default=..., type=...) and Flag(name, longname, arg=..., ...)
Arg(name, default, type) == [name |-> name, default |-> default, type |-> type]
Flag(name, longname, arg, required, default) ==
    [name |-> name, longname |-> longname, arg |-> arg, required |-> required,
     default |-> default]

\* Flag.get_name
get_name(flag) == IF flag.longname # <<>> THEN flag.longname ELSE flag.name

(* The parsers the model builds: Parser(args=[Arg("a"), Arg("b",           *)
(* default="D")], flags=["-c", Flag("-n", "--nm", arg=True)]) and          *)
(* Parser(args=["a", Arg("b", type=int)], flags=["-c", Flag("-n",          *)
(* arg=True, default="D")])                                                *)
Parsers ==
    { [args |-> << Arg(Str_arg_a, Nothing, "None"),
                   Arg(Str_arg_b, StrVal(Str_D), "None") >>,
       flags |-> << Flag(Flag_c, <<>>, FALSE, FALSE, Nothing),
                    Flag(Flag_n, Flag_nm, TRUE, FALSE, Nothing) >>,
       helpless |-> FALSE],
      [args |-> << Arg(Str_arg_a, Nothing, "None"),
                   Arg(Str_arg_b, Nothing, "int") >>,
       flags |-> << Flag(Flag_c, <<>>, FALSE, FALSE, Nothing),
                    Flag(Flag_n, <<>>, TRUE, FALSE, StrVal(Str_D)) >>,
       helpless |-> FALSE] }

\* ParseState(args); error stands for an XCliError raised on the way
ParseState(args) ==
    [args |-> args, index |-> 0, args_index |-> 0,
     result |-> [k \in {} |-> NoneVal], help |-> FALSE, error |-> FALSE,
     message |-> ""]

\* raise XCliError(message + ...): the scan stops with this message
raise(state, message) == [state EXCEPT !.error = TRUE, !.message = message]

\* state.result[key] = value
set_item(d, key, value) ==
    [k \in DOMAIN d \cup {key} |-> IF k = key THEN value ELSE d[k]]

\* the index of the first "=" of a token, 0 when it has none
first_eq(tok) ==
    IF \E i \in 1..Len(tok) : tok[i] = 61
    THEN CHOOSE i \in 1..Len(tok) :
             tok[i] = 61 /\ \A j \in 1..(i - 1) : tok[j] # 61
    ELSE 0

\* Parser.handle_arg
handle_arg(parser, state, arg) ==
    IF state.args_index >= Len(parser.args)
    THEN raise(state, "extra argument")
    ELSE LET argspec == parser.args[state.args_index + 1]
             value == apply_type(argspec.type, StrVal(arg))
         IN  IF value = NoValue
             THEN raise(state, "could not parse typed argument")
             ELSE [state EXCEPT !.result = set_item(@, argspec.name, value),
                                !.args_index = @ + 1,
                                !.index = @ + 1]

\* self.flags.get(flag), then self.flag_nicknames: the position of the
\* flag's specification in parser.flags, 0 when the flag is unknown
find_flag(parser, flag) ==
    LET byname == {i \in 1..Len(parser.flags) : get_name(parser.flags[i]) = flag}
        bynick == {i \in 1..Len(parser.flags) :
                      /\ parser.flags[i].name = flag
                      /\ parser.flags[i].longname # <<>>}
    IN  IF byname # {} THEN CHOOSE i \in byname : \A j \in byname : j <= i
        ELSE IF bynick # {} THEN CHOOSE i \in bynick : \A j \in bynick : j <= i
        ELSE 0

\* Parser.handle_flag; `not arg` holds for no "=" and for an empty argument
handle_flag(parser, state, token) ==
    LET eq == first_eq(token)
        flag == IF eq > 0 THEN SubSeq(token, 1, eq - 1) ELSE token
        has_arg == eq > 0 /\ eq < Len(token)
        arg == SubSeq(token, eq + 1, Len(token))
        at == find_flag(parser, flag)
    IN  IF at = 0 THEN raise(state, "unknown flag")
        ELSE LET flagspec == parser.flags[at]
             IN  IF flagspec.arg
                 THEN IF ~has_arg /\ state.index = Len(state.args) - 1
                      THEN raise(state, "missing argument for flag")
                      ELSE [state EXCEPT
                              !.result = set_item(@, get_name(flagspec),
                                  IF has_arg THEN StrVal(arg)
                                  ELSE StrVal(state.args[state.index + 2])),
                              !.index = @ + 2]
                 ELSE IF has_arg
                      THEN raise(state, "flag does not take argument")
                      ELSE [state EXCEPT
                              !.result = set_item(@, get_name(flagspec), BoolVal(TRUE)),
                              !.index = @ + 1]

\* the first loop of Parser.fill_in_default_args
RECURSIVE fill_in_args(_, _)
fill_in_args(parser, state) ==
    IF state.args_index >= Len(parser.args) THEN state
    ELSE LET argspec == parser.args[state.args_index + 1]
         IN  IF argspec.default # Nothing
             THEN fill_in_args(parser,
                      [state EXCEPT !.result = set_item(@, argspec.name, argspec.default),
                                    !.args_index = @ + 1])
             ELSE raise(state, "missing argument")

\* its second loop, from the i-th flag on
RECURSIVE fill_in_flags(_, _, _)
fill_in_flags(parser, state, i) ==
    IF i > Len(parser.flags) THEN state
    ELSE LET flagspec == parser.flags[i]
         IN  IF get_name(flagspec) \in DOMAIN state.result
             THEN fill_in_flags(parser, state, i + 1)
             ELSE IF flagspec.default # Nothing
             THEN fill_in_flags(parser,
                      [state EXCEPT !.result =
                           set_item(@, get_name(flagspec), flagspec.default)], i + 1)
             ELSE IF flagspec.required THEN raise(state, "missing required flag")
             ELSE fill_in_flags(parser,
                      [state EXCEPT !.result =
                           set_item(@, get_name(flagspec),
                                    IF flagspec.arg THEN NoneVal ELSE BoolVal(FALSE))],
                      i + 1)

\* Parser.fill_in_default_args
fill_in_default_args(parser, state) ==
    LET t == fill_in_args(parser, state)
    IN  IF t.error THEN t ELSE fill_in_flags(parser, t, 1)

\* one pass of the while loop of Parser._parse
step(parser, state) ==
    LET arg == state.args[state.index + 1]
    IN  IF ~parser.helpless /\ arg = Tok_help
        THEN [state EXCEPT !.help = TRUE]
        ELSE IF startswith(arg, <<45>>)
        THEN handle_flag(parser, state, arg)
        ELSE handle_arg(parser, state, arg)

\* the while loop of Parser._parse from state on
RECURSIVE scan(_, _)
scan(parser, state) ==
    IF state.error \/ state.help \/ state.index >= Len(state.args) THEN state
    ELSE scan(parser, step(parser, state))

\* Parser._parse
_parse(parser, args) ==
    LET state == scan(parser, ParseState(args))
    IN  IF state.error \/ state.help THEN state
        ELSE fill_in_default_args(parser, state)

\* Parser.usage builds a Table without its required `columns` argument as soon
\* as the parser declares a positional argument or a flag: a TypeError
usage_raises(parser) == Len(parser.args) > 0 \/ Len(parser.flags) > 0

\* how Parser.parse ends for a ParseState: the result returned, or the usage
\* text printed after an error or for --help and the process exited, unless
\* building the usage text raised
outcome(parser, state) ==
    IF state.error \/ state.help
    THEN [status |-> IF state.error THEN "error" ELSE "help",
          message |-> state.message,
          end |-> IF usage_raises(parser) THEN "TypeError" ELSE "exit",
          result |-> [k \in {} |-> NoneVal]]
    ELSE [status |-> "ok", message |-> "", end |-> "return",
          result |-> state.result]

\* Parser.parse
parse(parser, args) == outcome(parser, _parse(parser, args))

\* Parser(args=..., flags=...)
NewParser(parser) ==
    /\ cli.pc = "idle"
    /\ cli' = [pc |-> "built", parser |-> parser, args |-> <<>>,
               out |-> [status |-> "none", message |-> "", end |-> "none",
                       result |-> [k \in {} |-> NoneVal]]]
    /\ UNCHANGED <<autocomplete, in2, scr>>

\* parser.parse(args)
Parse(args) ==
    /\ cli.pc = "built"
    /\ cli' = [cli EXCEPT !.pc = "parsed", !.args = args,
                          !.out = parse(cli.parser, args)]
    /\ UNCHANGED <<autocomplete, in2, scr>>

\* the command lines of at most MaxArgs tokens
CommandLines == UNION { [1..n -> Tokens] : n \in 0..MaxArgs }

InitParser ==
    /\ sequence = <<Str_Ab, Str_a, Str_ba>>
    /\ fuzzy = FALSE
    /\ max_options = 2
    /\ min_chars = 1
    /\ managed = FALSE
    /\ ed = NoEd
    /\ scr = NoScr
    /\ given = NoGiven
    /\ InitState

NextParser ==
    \/ \E parser \in Parsers : NewParser(parser)
    \/ \E args \in CommandLines : Parse(args)

SpecParser == InitParser /\ [][NextParser]_vars

----------------------------------------------------------------------------
(* The Printer on a terminal window, src/xcli/_autocomplete.py:196-301.     *)
(* t = [height, rows, row, col, sgr] is the window: its rows from the top,  *)
(* each with its text and whether it was written in inverse video, and the  *)
(* cursor (row and column count from 0). cursor_pos and lines_below_cursor  *)
(* are the Printer's fields. Ghosts: anchor is the row of the input line    *)
(* (negative when it has scrolled out of the window), clamped tells that a  *)
(* cursor_down met the bottom row, writes counts the writes of the last     *)
(* operation, lines is the list the last paint was given (none once the     *)
(* overlay was cleared). Every line written is shorter than the window is   *)
(* wide.                                                                    *)

BlankRow == [text |-> <<>>, inverse |-> FALSE]

\* stdout.write(text) for a text without a newline
write(t, text) ==
    IF text = <<>> THEN [t EXCEPT !.writes = t.writes + 1]
    ELSE LET old == t.rows[t.row + 1].text
             before == IF Len(old) >= t.col THEN SubSeq(old, 1, t.col)
                       ELSE old \o [i \in 1..(t.col - Len(old)) |-> 32]
             after == SubSeq(old, t.col + Len(text) + 1, Len(old))
         IN  [t EXCEPT !.rows[t.row + 1] =
                            [text |-> before \o text \o after, inverse |-> t.sgr],
                       !.col = t.col + Len(text),
                       !.writes = t.writes + 1]

\* a "\n" written to the terminal: to the start of the next row, the window
\* scrolling up by one row when the cursor is on the bottom row
newline(t) ==
    IF t.row = t.height - 1
    THEN [t EXCEPT !.rows = Tail(t.rows) \o <<BlankRow>>, !.col = 0,
                   !.anchor = t.anchor - 1]
    ELSE [t EXCEPT !.row = t.row + 1, !.col = 0]

\* "\033[7m" and "\033[0m"
sgr(t, inverse) == [t EXCEPT !.sgr = inverse, !.writes = t.writes + 1]

\* the count a terminal takes from a CSI parameter: 0 stands for the default 1
csi_count(n) == IF n = 0 THEN 1 ELSE n

\* Printer.clear_line
clear_line(t) == [t EXCEPT !.rows[t.row + 1] = BlankRow, !.writes = t.writes + 1]

\* Printer.return_to_start
return_to_start(t) == [t EXCEPT !.col = 0, !.writes = t.writes + 1]

\* Printer.cursor_down: no effect on the bottom row
cursor_down(t) ==
    IF t.row = t.height - 1
    THEN [t EXCEPT !.clamped = TRUE, !.writes = t.writes + 1]
    ELSE [t EXCEPT !.row = t.row + 1, !.writes = t.writes + 1]

\* Printer.cursor_up(n): stops at the top row
cursor_up(t, n) ==
    [t EXCEPT !.row = IF t.row >= csi_count(n) THEN t.row - csi_count(n) ELSE 0,
              !.writes = t.writes + 1]

\* Printer.cursor_right(n)
cursor_right(t, n) == [t EXCEPT !.col = t.col + csi_count(n), !.writes = t.writes + 1]

\* Printer.cursor_down_and_start
cursor_down_and_start(t) ==
    [t EXCEPT !.row = Min(t.height - 1, t.row + 1), !.col = 0,
              !.writes = t.writes + 1]

\* Printer.print_line on the window; the row written is the input line
print_line_on(t, text) ==
    LET u == write(return_to_start(clear_line(t)), text)
    IN  [u EXCEPT !.cursor_pos = Len(text), !.anchor = u.row]

\* the loop of Printer.clear_below_cursor
RECURSIVE clear_rows(_, _)
clear_rows(t, n) ==
    IF n = 0 THEN t ELSE clear_rows(cursor_down(clear_line(t)), n - 1)

\* Printer.clear_below_cursor on the window
clear_below_cursor_on(t) ==
    IF t.lines_below_cursor = 0 THEN t
    ELSE [cursor_up(clear_rows(cursor_down(t), t.lines_below_cursor),
                    t.lines_below_cursor + 1)
            EXCEPT !.lines_below_cursor = 0]

\* the loop of Printer.print_lines_below_cursor from line i on
RECURSIVE write_lines(_, _, _, _)
write_lines(t, lines, highlight, i) ==
    IF i > Len(lines) THEN t
    ELSE IF i - 1 = highlight
    THEN write_lines(sgr(newline(write(sgr(t, TRUE), lines[i])), FALSE),
                     lines, highlight, i + 1)
    ELSE write_lines(newline(write(t, lines[i])), lines, highlight, i + 1)

\* Printer.print_lines_below_cursor on the window
print_lines_below_cursor_on(t, lines, highlight) ==
    LET u == clear_below_cursor_on(t)
    IN  IF lines = <<>> THEN u
        ELSE LET w == write_lines(newline([u EXCEPT !.writes = u.writes + 1]),
                                  lines, highlight, 1)
             IN  cursor_right(cursor_up([w EXCEPT !.lines_below_cursor = Len(lines)],
                                        Len(lines) + 1),
                              w.cursor_pos)

\* the window heights, the texts of the input line and the suggestion lists drawn
Heights == 3..MaxHeight
LineTexts == { <<>>, Str_prompt, Str_prompt \o Str_a }
OverlayLists == { <<>>, <<Str_a>>, <<Str_a, Str_ba>> }

\* a drawing operation of the Printer begins
Begin(t) == [t EXCEPT !.clamped = FALSE, !.writes = 0]

Draw(t) == /\ scr' = t
           /\ UNCHANGED <<autocomplete, cli, in2>>

\* Autocomplete.input: self.printer.print_line(self.prompt)
PrintPrompt(text) ==
    /\ scr.pc = "idle"
    /\ Draw([print_line_on(Begin(scr), text) EXCEPT !.pc = "reading"])

\* Autocomplete.sync_display: self.printer.print_line(self.prompt + chars)
PrintLine(text) ==
    /\ scr.pc = "reading"
    /\ Draw([print_line_on(Begin(scr), text) EXCEPT !.pc = "painting"])

\* Autocomplete.sync_display: self.printer.print_lines_below_cursor(...)
PrintLinesBelowCursor(lines, highlight) ==
    /\ scr.pc = "painting"
    /\ Draw([print_lines_below_cursor_on(Begin(scr), lines, highlight)
               EXCEPT !.pc = "reading", !.lines = lines])

\* Autocomplete.input after the loop: self.printer.clear_below_cursor()
ClearBelowCursor ==
    /\ scr.pc = "reading"
    /\ Draw([clear_below_cursor_on(Begin(scr))
               EXCEPT !.pc = "leaving", !.lines = <<>>])

\* Autocomplete.input after the loop: self.printer.cursor_down_and_start()
CursorDownAndStart ==
    /\ scr.pc = "leaving"
    /\ Draw([cursor_down_and_start(Begin(scr)) EXCEPT !.pc = "idle"])

\* Autocomplete.input left by EOFError: nothing is drawn
Abandon ==
    /\ scr.pc = "reading"
    /\ Draw([Begin(scr) EXCEPT !.pc = "idle"])

InitTerm ==
    /\ sequence = <<Str_Ab, Str_a, Str_ba>>
    /\ fuzzy = FALSE
    /\ max_options = 2
    /\ min_chars = 1
    /\ managed = FALSE
    /\ ed = NoEd
    /\ given = NoGiven
    /\ \E h \in Heights : \E r \in 0..(h - 1) :
          scr = [pc |-> "idle", height |-> h, rows |-> [i \in 1..h |-> BlankRow],
                 row |-> r, col |-> 0, sgr |-> FALSE, cursor_pos |-> 0,
                 lines_below_cursor |-> 0, anchor |-> r, clamped |-> FALSE,
                 writes |-> 0, lines |-> <<>>]
    /\ InitState

NextTerm ==
    \/ \E text \in LineTexts : PrintPrompt(text)
    \/ \E text \in LineTexts : PrintLine(text)
    \/ \E lines \in OverlayLists : \E h \in {None} \cup (0..(Len(lines) - 1)) :
           PrintLinesBelowCursor(lines, h)
    \/ ClearBelowCursor
    \/ CursorDownAndStart
    \/ Abandon

SpecTerm == InitTerm /\ [][NextTerm]_vars

----------------------------------------------------------------------------
(* Vocabulary of the properties *)

\* the text shown for the state: the selected candidate, else the buffer
Shown == IF selected = None THEN join(chars) ELSE suggestions[selected + 1]

\* the first max_options entries of a candidate list, all of them for None
FirstOptions(options) ==
    IF max_options = None THEN options
    ELSE [i \in 1..Min(max_options, Len(options)) |-> options[i]]

\* s without its last element
AllButLast(s) == [i \in 1..(Len(s) - 1) |-> s[i]]

\* this step processes a keystroke inside the loop of input()
LoopStep == pc = "reading" /\ pc' = "reading" /\ nkeys' = nkeys + 1
DownStep == LoopStep /\ c' = ESCAPE /\ esc' = DOWN
UpStep == LoopStep /\ c' = ESCAPE /\ esc' = UP
BackspaceStep == LoopStep /\ c' = BACKSPACE
CharStep == LoopStep /\ c' \notin {BACKSPACE, ESCAPE}
EnterStep == pc = "reading" /\ pc' = "returned"

----------------------------------------------------------------------------
(* C1. Identity: when input() has read only printable characters and then  *)
(* Enter, it returns exactly those characters in order.                    *)
C1_Identity == (pc = "returned" /\ pure) => result = typed

\* the same restricted to the first input() call of an object
C1_IdentityFirstCall == (pc = "returned" /\ pure /\ ncalls = 1) => result = typed

(* C2. Enter commits: reading Enter with a selection present returns       *)
(* suggestions[selected]; with no selection it returns the buffer.         *)
C2_EnterCommits ==
    [][EnterStep =>
         result' = IF selected # None THEN suggestions[selected + 1]
                   ELSE join(chars)]_vars

\* Enter was read with a selection present and the candidate, which differs
\* from everything typed, was returned
C2_Witness ==
    /\ pc = "returned"
    /\ prev_selected # None
    /\ result = lower(sequence[1])
    /\ Len(result) > nkeys

(* C3. One-keystroke lag, as claimed: in a run of k Down presses that      *)
(* began with no suggestions, no selection and a buffer b no longer than   *)
(* min_chars, where the provider offers n >= 1 candidates for b, the 1st   *)
(* Down selects nothing and the k-th (k >= 2) leaves index min(k-2, n-1)   *)
(* selected; Down, Down, Down, Enter on an empty buffer returns the        *)
(* provider's second candidate.                                            *)
C3_LagAsClaimed ==
    LET n == Len(completer(join(chars)))
    IN  /\ (pc = "reading" /\ downs >= 1 /\ n >= 1) =>
              /\ downs = 1 => (selected = None /\ suggestions # <<>>)
              /\ downs >= 2 => selected = Min(downs - 2, n - 1)
        /\ (pc = "returned" /\ downs = 3 /\ nkeys = 3
                /\ Len(completer(<<>>)) >= 2) =>
              result = completer(<<>>)[2]

(* C3, amended: the same with n the number of candidates left after the    *)
(* truncation to max_options; the 1st Down fetches exactly those.          *)
C3_Lag ==
    LET offered == FirstOptions(completer(join(chars)))
        n == Len(offered)
    IN  /\ (pc = "reading" /\ downs >= 1 /\ n >= 1) =>
              /\ downs = 1 => (selected = None /\ suggestions = offered)
              /\ downs >= 2 => selected = Min(downs - 2, n - 1)
        /\ (pc = "returned" /\ downs = 3 /\ nkeys = 3
                /\ Len(FirstOptions(completer(<<>>))) >= 2) =>
              result = completer(<<>>)[2]

\* Down, Down, Down, Enter on an empty buffer returned the second candidate
C3_Witness ==
    /\ pc = "returned" /\ downs = 3 /\ nkeys = 3
    /\ Len(FirstOptions(completer(<<>>))) >= 2
    /\ result = lower(sequence[2])

(* C4. Down transition: with no suggestions the selection stays absent;    *)
(* otherwise an absent selection becomes 0, a selection at the last index  *)
(* is unchanged, and any other selection i becomes i + 1.                  *)
C4_DownTransition ==
    [][DownStep =>
         selected' = IF suggestions = <<>> THEN None
                     ELSE IF selected = None THEN 0
                     ELSE IF selected = Len(suggestions) - 1 THEN selected
                     ELSE selected + 1]_vars

\* a Down pressed at the last index of several suggestions left it selected
C4_Witness ==
    /\ pc = "reading" /\ c = ESCAPE /\ esc = DOWN
    /\ prev_selected = selected
    /\ selected = Len(suggestions) - 1
    /\ selected >= 1

(* C5. Up transition: an absent selection stays absent, a selection at     *)
(* index 0 becomes absent and the input line shows the buffer again, and   *)
(* any other selection i becomes i - 1.                                    *)
C5_UpTransition ==
    [][UpStep =>
         /\ selected = None => selected' = None
         /\ selected = 0 => (selected' = None /\ line' = prompt' \o join(chars'))
         /\ selected > 0 => selected' = selected - 1]_vars

\* an Up pressed at index 0 cleared the selection and showed the buffer
C5_Witness ==
    /\ pc = "reading" /\ c = ESCAPE /\ esc = UP
    /\ prev_selected = 0
    /\ selected = None
    /\ chars # <<>>
    /\ line = prompt \o join(chars)

C8_RefreshPolicy ==
    (pc = "reading" /\ nkeys >= 1 /\ selected = None) =>
        suggestions =
            IF Len(join(chars)) > min_chars \/ (c = ESCAPE /\ esc = DOWN)
            THEN FirstOptions(completer(join(chars)))
            ELSE <<>>

\* a fetch above the threshold was truncated to max_options
C8_Witness ==
    /\ pc = "reading" /\ nkeys >= 1 /\ selected = None
    /\ c \in Printable
    /\ Len(chars) > min_chars
    /\ suggestions # <<>>
    /\ Len(suggestions) < Len(completer(join(chars)))

(* C9. Selection bound: in every reachable state, a present selection is   *)
(* an index into suggestions.                                              *)
C9_SelectionBound ==
    selected # None => (0 <= selected /\ selected < Len(suggestions))

\* a selection left by an aborted call is still present in the next call
C9_Witness ==
    /\ ncalls = 2 /\ pc = "reading"
    /\ selected # None
    /\ selected = Len(suggestions) - 1

(* C10. Display invariant: after every keystroke read by input() the text  *)
(* on the input line is prompt + suggestions[selected] when a selection is *)
(* present and prompt + buffer when it is absent, and cursor_pos is the    *)
(* length of that text.                                                    *)
C10_Display ==
    (pc \in {"reading", "returned", "aborted"} /\ c # None) =>
        (line = prompt \o Shown /\ cursor_pos = Len(prompt \o Shown))

\* the same for the keystrokes after which the loop redraws
C10_DisplayInLoop ==
    (pc = "reading" /\ nkeys >= 1) =>
        (line = prompt \o Shown /\ cursor_pos = Len(prompt \o Shown))

\* the same for every keystroke of an object's first input() call
C10_DisplayFirstCall ==
    (pc \in {"reading", "returned", "aborted"} /\ c # None /\ ncalls = 1) =>
        (line = prompt \o Shown /\ cursor_pos = Len(prompt \o Shown))

----------------------------------------------------------------------------
(* More vocabulary *)

\* this step reads a character inside the loop of input(), however it ends
KeyStep == pc = "reading" /\ nkeys' = nkeys + 1
UnknownEscStep == KeyStep /\ c' = ESCAPE /\ esc' \notin {UP, DOWN}
ExitStep == ~exited /\ exited'

\* the overlay that shows the given lines with none highlighted
Painted(lines) == [i \in 1..Len(lines) |-> [text |-> lines[i], inverse |-> FALSE]]

(* C11. Suggestions frozen under selection: a keystroke whose handling     *)
(* leaves a selection present does not call the completer and leaves       *)
(* suggestions as it was.                                                  *)
C11_Frozen ==
    [][(KeyStep /\ selected' # None) =>
         (~invoked' /\ suggestions' = suggestions)]_vars

\* an Up moved the selection from index 1 to index 0 without a fetch
C11_Witness ==
    /\ pc = "reading" /\ c = ESCAPE /\ esc = UP
    /\ prev_selected = 1 /\ selected = 0
    /\ ~invoked
    /\ Len(suggestions) >= 2

(* C12. Selection movement never edits the buffer: an Up or Down keystroke *)
(* leaves the buffer unchanged, whether or not the selection moves.        *)
C12_MovementKeepsBuffer ==
    [][(UpStep \/ DownStep) => chars' = chars]_vars

\* a Down selected a candidate that differs from the typed, non-empty buffer
C12_Witness ==
    /\ pc = "reading" /\ c = ESCAPE /\ esc = DOWN
    /\ prev_selected = None /\ selected = 0
    /\ chars # <<>>
    /\ join(chars) # suggestions[1]

C14_Gating ==
    (min_chars = 1 /\ Len(join(chars)) <= 1 /\ suggestions # <<>>) => forced

\* the same for an object's first input() call
C14_GatingFirstCall ==
    (min_chars = 1 /\ Len(join(chars)) <= 1 /\ suggestions # <<>> /\ ncalls <= 1)
        => forced

C16_InertAsClaimed ==
    [][UnknownEscStep =>
         /\ pc' = "reading"
         /\ chars' = chars
         /\ selected' = selected
         /\ suggestions' = suggestions]_vars

(* C16, amended: buffer and selected are as they were; suggestions is as   *)
(* it was except that, with no selection and len(buffer) <= min_chars, the *)
(* refresh that follows empties it.                                        *)
C16_Inert ==
    [][UnknownEscStep =>
         /\ pc' = "reading"
         /\ chars' = chars
         /\ selected' = selected
         /\ suggestions' = IF selected = None /\ Len(chars) <= min_chars
                           THEN <<>> ELSE suggestions]_vars

\* an unrecognized sequence was read while a selection was present
C16_Witness ==
    /\ pc = "reading" /\ c = ESCAPE /\ esc = <<65, 65>>
    /\ prev_selected # None
    /\ selected = prev_selected

(* C17. Down on empty suggestions, as claimed: the buffer, the selection,  *)
(* the input line and the painted overlay are all unchanged by that        *)
(* keystroke.                                                              *)
C17_DownUnobservableAsClaimed ==
    [][(DownStep /\ suggestions = <<>>) =>
         /\ chars' = chars
         /\ selected' = selected
         /\ line' = line
         /\ overlay' = overlay]_vars

(* C17, amended: the buffer, the selection and the input line are          *)
(* unchanged, and the overlay shows, on that same keystroke, the           *)
(* suggestions the Down forced, none highlighted.                          *)
C17_DownOnEmpty ==
    [][(DownStep /\ suggestions = <<>>) =>
         /\ chars' = chars
         /\ selected' = selected
         /\ line' = line
         /\ overlay' = Painted(FirstOptions(completer(join(chars))))]_vars

\* the first Down of a call painted the forced suggestions, selecting none
C17_Witness ==
    /\ pc = "reading" /\ c = ESCAPE /\ esc = DOWN
    /\ downs = 1
    /\ selected = None
    /\ overlay # <<>>

(* C18. Abort restores the terminal: reading 0x04 as a keystroke makes     *)
(* input() raise EOFError and return nothing, and when the with block is   *)
(* left by that EOFError the overlay is cleared and the saved terminal     *)
(* settings are restored.                                                  *)
C18_AbortRestores ==
    [][/\ (pc = "reading" /\ c' = CTRL_D) => (pc' = "aborted" /\ result' = result)
       /\ (ExitStep /\ pc = "aborted") =>
             /\ overlay' = <<>> /\ lines_below_cursor' = 0
             /\ term_mode' = OldSettings]_vars

\* __exit__ ran after an abort that had left suggestions painted
C18_Witness ==
    /\ pc = "aborted" /\ exited
    /\ suggestions # <<>>
    /\ overlay = <<>> /\ lines_below_cursor = 0
    /\ term_mode = OldSettings
    /\ restores = 1

(* C19. Release exactly once: the saved terminal mode is restored exactly  *)
(* once over the object's life, never twice and, when the object is let    *)
(* go, never zero times.                                                   *)
C19_ReleaseOnce ==
    /\ restores <= 1
    /\ dropped => restores = 1

\* the same for an object that is only used in a with statement
C19_ReleaseOnceByExitAlone ==
    (managed /\ exited /\ restores = 1) => term_mode = OldSettings

(* C20. input() always terminates: once a read has returned no character   *)
(* (stdin exhausted), input() has returned or aborted.                     *)
C20_Terminates == eof => pc # "reading"

----------------------------------------------------------------------------
(* C21. Abort is the only abnormal exit: no keystroke stream makes input() *)
(* raise anything other than the abort on 0x04, also not an ESC followed   *)
(* by fewer than two characters before the stream ends.                    *)
C21_OnlyAbort == pc # "raised"

(* C22. No re-entry after release: once close() or __exit__ has restored   *)
(* the terminal mode, no input() call on the object reads keystrokes.      *)
C22_NoReentry == pc = "reading" => restores = 0

\* this step is the start of an input() call
InputStep == pc # "reading" /\ pc' = "reading"

(* C23. Session isolation: every input() call starts with an empty buffer, *)
(* empty suggestions and no selection, whatever earlier calls on the same  *)
(* object left.                                                            *)
C23_Isolation ==
    [][InputStep => (chars' = <<>> /\ suggestions' = <<>> /\ selected' = None)]_vars

\* the same for an object's first input() call
C23_IsolationFirstCall ==
    [][(InputStep /\ ncalls = 0) =>
         (chars' = <<>> /\ suggestions' = <<>> /\ selected' = None)]_vars

(* C24. Cursor-movement keys edit in place: Left, Right, Home and End move *)
(* an insertion point within the buffer, and a typed character goes in at  *)
(* the insertion point; so whenever the buffer is what in-place editing    *)
(* gives for the keys read so far, it still is after a typed character.    *)
C24_CursorKeys ==
    [][(LoopStep /\ c' \in Printable /\ ed.ok /\ join(chars) = ed.text) =>
         join(chars') = ed'.text]_vars

\* the same while the insertion point is at the end of the buffer
C24_AppendAtEnd ==
    [][(LoopStep /\ c' \in Printable /\ ed.ok /\ join(chars) = ed.text
          /\ ed.point = Len(ed.text)) =>
         join(chars') = ed'.text]_vars

(* C25. Backspace deletes before the insertion point: after Left has moved *)
(* the insertion point into the middle of the buffer, Backspace removes    *)
(* the character just before the insertion point.                          *)
C25_BackspaceAtPoint ==
    [][(BackspaceStep /\ ed.ok /\ join(chars) = ed.text
          /\ ed.point > 0 /\ ed.point < Len(ed.text)) =>
         join(chars') = ed'.text]_vars

\* the same while the insertion point is at the end of the buffer
C25_BackspaceAtEnd ==
    [][(BackspaceStep /\ ed.ok /\ join(chars) = ed.text
          /\ ed.point = Len(ed.text)) =>
         join(chars') = ed'.text]_vars

\* the candidates of the captured sequence, as they appear in it, that match
Matching(text) ==
    LET prefix(x) == startswith(lower(x), lower(text))
        inside(x) == contains(lower(x), lower(text))
    IN  IF fuzzy THEN SelectSeq(sequence, inside) ELSE SelectSeq(sequence, prefix)

(* C26. Default provider: sequence_to_autocomplete(S)(t) returns, in the   *)
(* order of S, exactly the candidates of S, as they appear in S, whose     *)
(* lower-cased form starts with (fuzzy: contains) lower-cased t; so after  *)
(* a keystroke that called the provider, suggestions holds the first       *)
(* max_options of them.                                                    *)
C26_Provider ==
    (pc = "reading" /\ invoked) =>
        suggestions = FirstOptions(Matching(join(chars)))

\* what holds instead: the matching candidates come back lower-cased
C26_ProviderLowered ==
    (pc = "reading" /\ invoked) =>
        suggestions = FirstOptions([i \in 1..Len(Matching(join(chars))) |->
                                       lower(Matching(join(chars))[i])])

----------------------------------------------------------------------------
\* the response converts, is among the choices and verifies
Passes(p, raw) ==
    LET v == apply_type(p.type, StrVal(IF p.normalize THEN strip(raw) ELSE raw))
    IN  /\ v # NoValue
        /\ p.choices # NoChoices => v \in p.choices
        /\ p.verify # "None" => apply_verify(p.verify, v)

(* C27. Validated prompt: input2 returns a value only if that response     *)
(* passed every configured check; each failing response leads to exactly   *)
(* one further input() call and never to a return or an exception; passing *)
(* both choices and verify raises ValueError before any prompt is shown.   *)
C27_Validated ==
    /\ in2.pc = "returned" =>
          /\ Passes(in2, in2.response)
          /\ in2.value = apply_type(in2.type,
                 StrVal(IF in2.normalize THEN strip(in2.response) ELSE in2.response))
          /\ in2.prompts = in2.fails + 1
    /\ in2.pc = "prompting" => in2.prompts = in2.fails
    /\ (in2.pc = "prompting" /\ in2.prompts > 0) => ~Passes(in2, in2.response)
    /\ in2.pc = "raised" =>
          (in2.choices # NoChoices /\ in2.verify # "None" /\ in2.prompts = 0)
    /\ (in2.pc # "idle" /\ in2.choices # NoChoices /\ in2.verify # "None") =>
          in2.pc = "raised"

\* a response that did not convert was followed by one that passed
C27_Witness ==
    /\ in2.pc = "returned"
    /\ in2.type = "int" /\ in2.choices # NoChoices
    /\ in2.fails >= 1
    /\ in2.value = IntVal(1)

----------------------------------------------------------------------------
(* Vocabulary of the parser's properties *)

Dashed(tok) == startswith(tok, <<45>>)
\* the flag a token names: the part before its first "="
FlagOf(tok) == IF first_eq(tok) > 0 THEN SubSeq(tok, 1, first_eq(tok) - 1) ELSE tok
\* the token names a declared flag that takes an argument
NamesArgFlag(parser, tok) ==
    /\ find_flag(parser, FlagOf(tok)) # 0
    /\ parser.flags[find_flag(parser, FlagOf(tok))].arg

\* args with the token '--flag=v' at i replaced by the two tokens '--flag', 'v'
TwoTokens(args, i) ==
    SubSeq(args, 1, i - 1)
      \o << FlagOf(args[i]), SubSeq(args[i], first_eq(args[i]) + 1, Len(args[i])) >>
      \o SubSeq(args, i + 1, Len(args))

\* the token at i is '--flag=v' for a declared flag with arg=True, and the
\* only token of args that begins with a dash
SingleFlagWithValue(parser, args, i) ==
    /\ first_eq(args[i]) > 0
    /\ NamesArgFlag(parser, args[i])
    /\ \A j \in 1..Len(args) : Dashed(args[j]) => j = i

(* C28. Flag-argument forms are equivalent: for a flag declared with       *)
(* arg=True and every value v, a token list holding the single token       *)
(* '--flag=v' parses to the same result as the list with the two tokens    *)
(* '--flag', 'v' in its place.                                             *)
C28_FlagForms ==
    cli.pc = "parsed" =>
        \A i \in 1..Len(cli.args) :
            SingleFlagWithValue(cli.parser, cli.args, i) =>
                parse(cli.parser, TwoTokens(cli.args, i)) = cli.out

\* the same for a non-empty value in the last token of the command line
C28_FlagFormsAtEnd ==
    cli.pc = "parsed" =>
        \A i \in 1..Len(cli.args) :
            (/\ SingleFlagWithValue(cli.parser, cli.args, i)
             /\ i = Len(cli.args)
             /\ first_eq(cli.args[i]) < Len(cli.args[i])) =>
                parse(cli.parser, TwoTokens(cli.args, i)) = cli.out

\* the names every result has an entry for
Declared(parser) ==
    {parser.args[i].name : i \in 1..Len(parser.args)}
      \cup {get_name(parser.flags[i]) : i \in 1..Len(parser.flags)}

\* the flag is named by some token of the command line
Given(flagspec, args) ==
    \E j \in 1..Len(args) :
        Dashed(args[j]) /\ FlagOf(args[j]) \in {flagspec.name, flagspec.longname}

\* the tokens of args from i on that belong to flags (TRUE) or are positional
\* arguments (FALSE): a flag that takes an argument and has no "=" owns the
\* next token
RECURSIVE Pick(_, _, _, _)
Pick(parser, args, i, flags) ==
    IF i > Len(args) THEN <<>>
    ELSE IF Dashed(args[i])
    THEN IF NamesArgFlag(parser, args[i]) /\ first_eq(args[i]) = 0 /\ i < Len(args)
         THEN (IF flags THEN <<args[i], args[i + 1]>> ELSE <<>>)
                \o Pick(parser, args, i + 2, flags)
         ELSE (IF flags THEN <<args[i]>> ELSE <<>>) \o Pick(parser, args, i + 1, flags)
    ELSE (IF flags THEN <<>> ELSE <<args[i]>>) \o Pick(parser, args, i + 1, flags)

FlagsFirst(parser, args) ==
    Pick(parser, args, 1, TRUE) \o Pick(parser, args, 1, FALSE)
FlagsLast(parser, args) ==
    Pick(parser, args, 1, FALSE) \o Pick(parser, args, 1, TRUE)

\* one entry per declared argument and flag, absent flags at their defaults
Entries ==
    /\ DOMAIN cli.out.result = Declared(cli.parser)
    /\ \A i \in 1..Len(cli.parser.flags) :
          LET flagspec == cli.parser.flags[i]
          IN  ~Given(flagspec, cli.args) =>
                 cli.out.result[get_name(flagspec)] =
                     IF flagspec.default # Nothing THEN flagspec.default
                     ELSE IF flagspec.arg THEN NoneVal ELSE BoolVal(FALSE)

\* moving the flags before or behind the positional arguments changes nothing
PositionFree ==
    /\ parse(cli.parser, FlagsFirst(cli.parser, cli.args)) = cli.out
    /\ parse(cli.parser, FlagsLast(cli.parser, cli.args)) = cli.out

(* C29. Complete result: whenever parse succeeds, the result has exactly   *)
(* one entry for every declared positional argument and flag (keyed by the *)
(* long name when there is one), a flag absent from the command line maps  *)
(* to its default, else False or None, and a flag's position among the     *)
(* positionals does not change the result.                                 *)
C29_Complete ==
    (cli.pc = "parsed" /\ cli.out.status = "ok") => (Entries /\ PositionFree)

\* the entries alone
C29_Entries ==
    (cli.pc = "parsed" /\ cli.out.status = "ok") => Entries

\* the position of flags written without "="
C29_PositionTwoTokenForm ==
    (cli.pc = "parsed" /\ cli.out.status = "ok"
       /\ \A j \in 1..Len(cli.args) : first_eq(cli.args[j]) = 0) => PositionFree

\* every token taken as a positional argument
RECURSIVE bind_all(_, _, _)
bind_all(parser, state, toks) ==
    IF toks = <<>> \/ state.error THEN state
    ELSE bind_all(parser, handle_arg(parser, state, Head(toks)), Tail(toks))

\* the outcome the claim gives a command line whose i-th token is '--'
AfterDashes(parser, args, i) ==
    LET before == scan(parser, ParseState(SubSeq(args, 1, i - 1)))
        bound == bind_all(parser, before, SubSeq(args, i + 1, Len(args)))
    IN  outcome(parser, IF bound.error THEN bound
                        ELSE fill_in_default_args(parser, bound))

\* the i-th token is the first '--', and the tokens before it parse as a
\* command line of their own (none of them takes the '--' as its argument)
Separates(parser, args, i) ==
    /\ args[i] = Tok_dashes
    /\ \A j \in 1..(i - 1) : args[j] # Tok_dashes
    /\ LET before == scan(parser, ParseState(SubSeq(args, 1, i - 1)))
       IN  ~before.error /\ ~before.help /\ before.index = i - 1

(* C30. Dash separator: after a '--' token every following token is taken  *)
(* as a positional argument even if it begins with a dash, and the '--'    *)
(* itself is neither a flag nor a positional.                              *)
C30_DashSeparator ==
    cli.pc = "parsed" =>
        \A i \in 1..Len(cli.args) :
            Separates(cli.parser, cli.args, i) =>
                cli.out = AfterDashes(cli.parser, cli.args, i)

----------------------------------------------------------------------------
(* Vocabulary of the Printer's properties *)

\* the rows below the input line that show text
PaintedRows(t) ==
    {i \in 1..t.height : i - 1 > t.anchor /\ t.rows[i].text # <<>>}


PaintStep == scr.pc = "painting" /\ scr'.pc = "reading"
ClearStep == scr.pc = "reading" /\ scr'.pc = "leaving"

\* every list the Printer is given fits below the input line wherever that is
Roomy(t) == \A lines \in OverlayLists : Len(lines) + 2 <= t.height

Bookkeeping ==
    /\ scr.lines_below_cursor = Cardinality(PaintedRows(scr))
    /\ scr.pc = "reading" => scr.lines_below_cursor = Len(scr.lines)
    /\ scr.pc = "leaving" => (scr.lines_below_cursor = 0 /\ PaintedRows(scr) = {})

(* C31. Overlay bookkeeping: in every state between drawing operations      *)
(* lines_below_cursor is the number of suggestion lines painted below the   *)
(* input line; after a processed keystroke it is len(suggestions), and      *)
(* after clear_below_cursor it is 0 with no painted line left.              *)
C31_Bookkeeping == scr.pc # "off" => Bookkeeping

\* the same in a window with room below the input line for every list
C31_BookkeepingInRoomyWindow == (scr.pc # "off" /\ Roomy(scr)) => Bookkeeping

CursorOnInputLine == scr'.row = scr'.anchor /\ scr'.col = scr'.cursor_pos

(* C32. Overlay paint restores the cursor: after print_lines_below_cursor   *)
(* the cursor is on the input line's row at column cursor_pos, for every    *)
(* list of lines and every cursor_pos >= 0, also when the newlines scrolled *)
(* the window, given the rows fit in the window.                            *)
C32_PaintRestoresCursor ==
    [][(PaintStep /\ Roomy(scr)) => CursorOnInputLine]_vars

\* the same for an input line that is not empty, or an empty list
C32_PaintRestoresCursorPastStart ==
    [][(PaintStep /\ Roomy(scr) /\ (scr.cursor_pos > 0 \/ scr'.lines = <<>>))
          => CursorOnInputLine]_vars

\* what clear_below_cursor is to do with the window
Cleared ==
    /\ scr.lines_below_cursor = 0 =>
          /\ scr'.writes = 0
          /\ scr'.rows = scr.rows /\ scr'.row = scr.row /\ scr'.col = scr.col
    /\ scr.lines_below_cursor > 0 =>
          /\ \A i \in 1..scr.height :
                scr'.rows[i] =
                    IF i - 1 > scr.anchor /\ i - 1 <= scr.anchor + scr.lines_below_cursor
                    THEN BlankRow ELSE scr.rows[i]
          /\ scr'.row = scr.anchor
          /\ ~scr'.clamped
    /\ scr'.lines_below_cursor = 0
    /\ clear_below_cursor_on(Begin(scr')) = Begin(scr')

(* C33. Overlay clear is idempotent and in-window: clear_below_cursor       *)
(* writes nothing when lines_below_cursor == 0, so a second call in a row   *)
(* is a no-op; otherwise it blanks exactly the lines_below_cursor painted   *)
(* rows, returns the cursor to the input line's row and sets                *)
(* lines_below_cursor to 0, and none of its cursor-down moves is clamped by *)
(* the bottom of the window.                                                *)
C33_Clear == [][ClearStep => Cleared]_vars

\* the same in a window with room below the input line for every list
C33_ClearInRoomyWindow == [][(ClearStep /\ Roomy(scr)) => Cleared]_vars

(* C34. Escape framing: the two characters read after an ESC are always     *)
(* consumed as the escape suffix and never taken as keystrokes of their     *)
(* own: an Enter, 0x7F or 0x04 in either position neither submits, deletes  *)
(* nor aborts, and the character after them is read as a fresh keystroke.   *)
C34_Framing ==
    [][(KeyStep /\ c' = ESCAPE /\ esc' \in FramingSequences) =>
          /\ pc' = "reading"
          /\ chars' = chars /\ selected' = selected /\ result' = result
          /\ nkeys' = nkeys + 1]_vars

\* ESC [ 0x7F was read with text in the buffer, and the loop goes on
C34_Witness ==
    /\ pc = "reading" /\ c = ESCAPE /\ esc = <<91, BACKSPACE>>
    /\ chars # <<>> /\ nkeys >= 2

\* the completer's list is as it was returned
NotMutated == given.list = given.was

(* C35. Provider results are not aliased: the editor never mutates the      *)
(* sequence object the completer returned - clearing suggestions on commit  *)
(* or below the threshold leaves that list intact - for every max_options   *)
(* setting, None included; and the buffer after a commit is a copy of the   *)
(* selected candidate.                                                      *)
C35_NotAliased == NotMutated

\* the same when max_options is a number
C35_NotAliasedWhenSliced == max_options # None => NotMutated

(* C36. Clean state on normal return: whenever input() returns a string,    *)
(* the selection is absent, lines_below_cursor == 0 with no overlay left    *)
(* painted, and the returned string is the text last displayed on the       *)
(* input line after the prompt.                                             *)
C36_CleanReturn ==
    pc = "returned" =>
        /\ selected = None
        /\ lines_below_cursor = 0 /\ overlay = <<>>
        /\ line = prompt \o result

\* the same for the first call on an object
C36_CleanReturnFirstCall ==
    (pc = "returned" /\ ncalls = 1) =>
        /\ selected = None
        /\ lines_below_cursor = 0 /\ overlay = <<>>
        /\ line = prompt \o result

\* the tokens of the command line that are positional arguments
Positionals == Pick(cli.parser, cli.args, 1, FALSE)

\* a declared positional without a default is left without a token
Starved ==
    \E i \in 1..Len(cli.parser.args) :
        i > Len(Positionals) /\ cli.parser.args[i].default = Nothing

\* the parse ended for the help text or with an error that is not about the
\* number of positional arguments
OtherEnd ==
    \/ cli.out.status = "help"
    \/ /\ cli.out.status = "error"
       /\ cli.out.message \notin {"extra argument", "missing argument"}

Arity ==
    /\ cli.out.message = "extra argument" <=>
           Len(Positionals) > Len(cli.parser.args)
    /\ cli.out.message = "missing argument" <=>
           (Len(Positionals) <= Len(cli.parser.args) /\ Starved)
    /\ cli.out.message # "" =>
           (cli.out.status = "error" /\ DOMAIN cli.out.result = {})

(* C37. Positional arity errors: parsing fails with an 'extra argument'     *)
(* error exactly when more positional tokens are given than positionals are *)
(* declared, and with a 'missing argument' error exactly when a declared    *)
(* positional without a default receives no token; no result is returned in *)
(* either case.                                                             *)
C37_Arity == (cli.pc = "parsed" /\ ~OtherEnd) => Arity

\* the same for command lines without a '--flag=v' token
C37_ArityTwoTokenForm ==
    (cli.pc = "parsed" /\ ~OtherEnd
       /\ \A j \in 1..Len(cli.args) : first_eq(cli.args[j]) = 0) => Arity

\* the states in which the while loop of _parse starts a pass
RECURSIVE Passes_of(_, _)
Passes_of(parser, state) ==
    IF state.error \/ state.help \/ state.index >= Len(state.args) THEN {}
    ELSE {state} \cup Passes_of(parser, step(parser, state))

\* the token carries its flag's argument behind an "="
CarriesArgument(tok) == first_eq(tok) > 0 /\ first_eq(tok) < Len(tok)

\* the pass returned or raised, or it moved the index forward
Progress(s, t) == t.error \/ t.help \/ t.index > s.index

\* the pass returned or raised, or it moved the index by one token, or by
\* two for a flag that took the next token as its argument
Consumes(s, t) ==
    \/ t.error \/ t.help
    \/ t.index = s.index + 1
    \/ /\ t.index = s.index + 2
       /\ t.index <= Len(s.args)
       /\ ~CarriesArgument(s.args[s.index + 1])

(* C38. The argument scan terminates: every pass of the loop of _parse      *)
(* either returns, raises a parse error, or strictly increases the token    *)
(* index (by 1, or by 2 for a flag with a separate argument), the index     *)
(* never skips past a token without consuming it, and so parsing finishes   *)
(* for every finite token list.                                             *)
C38_Scan ==
    cli.pc = "parsed" =>
        \A s \in Passes_of(cli.parser, ParseState(cli.args)) :
            /\ Progress(s, step(cli.parser, s))
            /\ Consumes(s, step(cli.parser, s))

\* every pass ends the scan or moves the index forward
C38_ScanProgress ==
    cli.pc = "parsed" =>
        \A s \in Passes_of(cli.parser, ParseState(cli.args)) :
            Progress(s, step(cli.parser, s))

\* no token is skipped on command lines without a '--flag=v' token
C38_ScanTwoTokenForm ==
    (cli.pc = "parsed" /\ \A j \in 1..Len(cli.args) : ~CarriesArgument(cli.args[j])) =>
        \A s \in Passes_of(cli.parser, ParseState(cli.args)) :
            Consumes(s, step(cli.parser, s))

====
